---- MODULE Spec2Model ----
(***************************************************************************)
(* stripe/agent-toolkit (python): the configuration-driven tool registry,  *)
(* the dispatcher StripeAPI and the strands and camel adapters.            *)
(*                                                                         *)
(* Python values are tagged records.  JSON text is a sequence of lexical   *)
(* tokens, decoded by json_loads and produced by json_dumps.  A handler is *)
(* one action; what it did is observed in the variable `last`.             *)
(***************************************************************************)
EXTENDS Integers, Sequences, FiniteSets, TLC

\* Number of StripeAgentToolkit instances the process constructs.
NumToolkits == 2

(***************************************************************************)
(* Python values                                                           *)
(***************************************************************************)
None == [t |-> "none"]
Str(s) == [t |-> "str", s |-> s]
Num(n) == [t |-> "int", n |-> n]
Dict(f) == [t |-> "dict", d |-> f]
List(l) == [t |-> "list", l |-> l]
Bool(b) == [t |-> "bool", b |-> b]
\* A str whose content is read as JSON text: its lexical tokens.
Text(toks) == [t |-> "str", toks |-> toks]
EmptyDict == Dict(<<>>)

\* bool(v): None, "", 0, {} and [] are falsy.
Truthy(v) ==
    CASE v.t = "none" -> FALSE
      [] v.t = "str" -> IF "toks" \in DOMAIN v THEN v.toks # <<>> ELSE v.s # ""
      [] v.t = "bool" -> v.b
      [] v.t = "int" -> v.n # 0
      [] v.t = "dict" -> DOMAIN v.d # {}
      [] v.t = "list" -> v.l # <<>>
      [] OTHER -> TRUE

\* `key in d` / d.get(key, default) on a dict value.
HasKey(v, key) == key \in DOMAIN v.d
Get(v, key, default) == IF key \in DOMAIN v.d THEN v.d[key] ELSE default

(***************************************************************************)
(* JSON text: tokens, json.loads and json.dumps                            *)
(***************************************************************************)
P(c) == [k |-> c]
Lit(v) == [k |-> "lit", v |-> v]
Bad == [k |-> "bad"]

RECURSIVE ParseValue(_, _)
RECURSIVE ParseMembers(_, _, _)
RECURSIVE ParseElements(_, _, _)

ParseFail == [ok |-> FALSE, v |-> None, next |-> 0]

\* members of an object after "{" or ",": string ":" value, then "," or "}".
ParseMembers(toks, i, acc) ==
    IF i + 2 > Len(toks) THEN ParseFail
    ELSE IF ~(toks[i].k = "lit" /\ toks[i].v.t = "str" /\ toks[i + 1].k = ":")
    THEN ParseFail
    ELSE LET r == ParseValue(toks, i + 2) IN
         IF ~r.ok \/ r.next > Len(toks) THEN ParseFail
         ELSE LET acc2 == (toks[i].v.s :> r.v) @@ acc IN
              IF toks[r.next].k = "}"
              THEN [ok |-> TRUE, v |-> Dict(acc2), next |-> r.next + 1]
              ELSE IF toks[r.next].k = ","
              THEN ParseMembers(toks, r.next + 1, acc2)
              ELSE ParseFail

\* elements of an array after "[" or ",": value, then "," or "]".
ParseElements(toks, i, acc) ==
    LET r == ParseValue(toks, i) IN
    IF ~r.ok \/ r.next > Len(toks) THEN ParseFail
    ELSE IF toks[r.next].k = "]"
    THEN [ok |-> TRUE, v |-> List(Append(acc, r.v)), next |-> r.next + 1]
    ELSE IF toks[r.next].k = ","
    THEN ParseElements(toks, r.next + 1, Append(acc, r.v))
    ELSE ParseFail

ParseValue(toks, i) ==
    IF i > Len(toks) THEN ParseFail
    ELSE CASE toks[i].k = "lit" -> [ok |-> TRUE, v |-> toks[i].v, next |-> i + 1]
           [] toks[i].k = "{" ->
                IF i + 1 <= Len(toks) /\ toks[i + 1].k = "}"
                THEN [ok |-> TRUE, v |-> EmptyDict, next |-> i + 2]
                ELSE ParseMembers(toks, i + 1, <<>>)
           [] toks[i].k = "[" ->
                IF i + 1 <= Len(toks) /\ toks[i + 1].k = "]"
                THEN [ok |-> TRUE, v |-> List(<<>>), next |-> i + 2]
                ELSE ParseElements(toks, i + 1, <<>>)
           [] OTHER -> ParseFail

\* json.loads(text): ok = FALSE stands for json.JSONDecodeError.
json_loads(toks) ==
    LET r == ParseValue(toks, 1) IN
    IF r.ok /\ r.next = Len(toks) + 1 THEN [ok |-> TRUE, v |-> r.v]
    ELSE [ok |-> FALSE, v |-> None]

RECURSIVE json_dumps(_)
RECURSIVE DumpMembers(_, _)
RECURSIVE DumpElements(_, _)

DumpMembers(d, keys) ==
    IF keys = {} THEN <<>>
    ELSE LET key == CHOOSE x \in keys : TRUE
             rest == keys \ {key} IN
         <<Lit(Str(key)), P(":")>> \o json_dumps(d[key])
            \o (IF rest = {} THEN <<>> ELSE <<P(",")>> \o DumpMembers(d, rest))

DumpElements(l, i) ==
    IF i > Len(l) THEN <<>>
    ELSE json_dumps(l[i])
            \o (IF i = Len(l) THEN <<>> ELSE <<P(",")>> \o DumpElements(l, i + 1))

\* json.dumps(value)
json_dumps(v) ==
    CASE v.t = "dict" -> <<P("{")>> \o DumpMembers(v.d, DOMAIN v.d) \o <<P("}")>>
      [] v.t = "list" -> <<P("[")>> \o DumpElements(v.l, 1) \o <<P("]")>>
      [] OTHER -> <<Lit(v)>>

(***************************************************************************)
(* Operation catalogue, argument schemas, configuration                    *)
(***************************************************************************)
\* args_schema of each catalogue entry: named, typed, optionally required fields.
Schemas ==
    [create_product |-> [required |-> {"name"},
                         properties |-> [name |-> "str", price |-> "int"]],
     list_products |-> [required |-> {},
                        properties |-> [limit |-> "int"]],
     create_refund |-> [required |-> {"payment_intent"},
                        properties |-> [payment_intent |-> "str", amount |-> "int"]],
     update_customer |-> [required |-> {"name"},
                          properties |-> [name |-> "str"]]]

\* The catalogue `tools`: one descriptor per operation.
tools ==
    <<[method |-> "create_product", description |-> "Create a product",
       category |-> "products", action |-> "create"],
      [method |-> "list_products", description |-> "List products",
       category |-> "products", action |-> "list"],
      [method |-> "create_refund", description |-> "Refund a payment intent",
       category |-> "refunds", action |-> "create"],
      [method |-> "update_customer", description |-> "Update a customer",
       category |-> "customers", action |-> "update"]>>

\* is_tool_allowed(tool, configuration): deny by default, allow only an action
\* that the configuration maps to true under the tool's category.
is_tool_allowed(tool, configuration) ==
    /\ configuration.t = "dict"
    /\ HasKey(configuration, "actions")
    /\ configuration.d["actions"].t = "dict"
    /\ HasKey(configuration.d["actions"], tool.category)
    /\ LET permissions == configuration.d["actions"].d[tool.category] IN
       /\ permissions.t = "dict"
       /\ HasKey(permissions, tool.action)
       /\ permissions.d[tool.action] = Bool(TRUE)

\* The configurations a toolkit is constructed with.
Configurations ==
    { None,
      EmptyDict,
      Dict("actions" :> Dict("products" :> Dict("create" :> Bool(TRUE)))),
      Dict("actions" :> Dict("products" :> Dict("list" :> Bool(FALSE))
                             @@ "refunds" :> Dict("create" :> Bool(TRUE))
                             @@ "customers" :> Dict("update" :> Bool(TRUE))
                             @@ "disputes" :> Dict("update" :> Bool(TRUE)))
           @@ "context" :> Dict("account" :> Str("acct_1"))) }

\* The secret key each toolkit instance is constructed with.
SecretKeys == <<"sk_A", "sk_B", "sk_C", "sk_D">>

\* Argument mappings handed to the tools and to the dispatcher.
KwargsSet ==
    { <<>>,
      "name" :> Str("test"),
      "name" :> Str("test") @@ "price" :> Num(100),
      "name" :> Num(100),
      "name" :> Str("test") @@ "bogus" :> Num(1),
      "payment_intent" :> Str("pi_missing"),
      "method" :> Str("list_products") @@ "name" :> Str("test") }

\* Structured envelopes of the strands framework.
Envelopes ==
    { Dict("toolUseId" :> Str("abc")
           @@ "input" :> Dict("name" :> Str("test") @@ "price" :> Num(100))),
      Dict("toolUseId" :> Str("abc")
           @@ "input" :> Dict("payment_intent" :> Str("pi_missing"))),
      Dict("toolUseId" :> Str("") @@ "input" :> Dict("name" :> Str("test"))),
      Dict("toolUseId" :> Str("abc")),
      Dict("toolUseId" :> Str("abc") @@ "input" :> Str("oops")),
      Dict("input" :> Dict("name" :> Str("test"))) }

\* The objects the framework also sends JSON-encoded.
Encoded ==
    { Dict("toolUseId" :> Str("abc")
           @@ "input" :> Dict("name" :> Str("test") @@ "price" :> Num(100))),
      Dict("toolUseId" :> Str("abc")),
      Dict("input" :> Dict("name" :> Str("test"))),
      Dict("name" :> Str("test")) }

\* Raw inputs the strands framework hands to callback_wrapper.
Inputs ==
    {Dict(a) : a \in KwargsSet}
        \cup Envelopes
        \cup {Text(json_dumps(e)) : e \in Encoded}
        \cup { Text(<<Bad, P("{")>>),
               Text(<<P("["), Lit(Num(1)), P(","), Lit(Num(2)), P("]")>>),
               Text(<<Lit(None)>>),
               Num(5),
               None }

Toolkits == 1..NumToolkits

VARIABLES
    stripe_api_key,   \* the provider library's global stripe.api_key
    toolkits,         \* toolkit instance -> None, or the constructed toolkit
    last              \* what the most recent call did and returned

vars == <<stripe_api_key, toolkits, last>>

(***************************************************************************)
(* Dispatcher: StripeAPI                                                   *)
(***************************************************************************)
\* Keys of StripeAPI._method_dispatch.
method_dispatch ==
    { "create_customer", "list_customers", "create_product", "list_products",
      "create_price", "list_prices", "create_payment_link", "list_invoices",
      "create_invoice", "create_invoice_item", "finalize_invoice",
      "retrieve_balance", "create_refund", "list_payment_intents",
      "create_billing_portal_session" }

NoProvider ==
    [called |-> FALSE, api |-> "", api_key |-> None, stripe_account |-> None]

\* Outcome of a call: the exception raised ("" for none) with its message, the
\* value returned, and what happened below the call.
Outcome(raised, msg, value, executed, impl_args, provider) ==
    [raised |-> raised, msg |-> msg, value |-> value, executed |-> executed,
     impl_args |-> impl_args, provider |-> provider]

\* Python binds keyword arguments to the implementation's parameters: a missing
\* required parameter or an unexpected keyword raises TypeError before the body
\* runs.  Values are not type-checked.
Binds(method, kwargs) ==
    /\ DOMAIN kwargs \subseteq DOMAIN Schemas[method].properties
    /\ Schemas[method].required \subseteq DOMAIN kwargs

\* function(context, **kwargs): one provider call made with the library's
\* global credential and the context's account; the provider answers or fails.
CallImpl(method, context, kwargs, answer) ==
    IF ~Binds(method, kwargs)
    THEN Outcome("TypeError", "unexpected or missing keyword argument", None,
                 FALSE, None, NoProvider)
    ELSE LET provider == [called |-> TRUE, api |-> method,
                          api_key |-> stripe_api_key,
                          stripe_account |-> Get(context, "account", None)] IN
         IF answer = "fail"
         THEN Outcome("StripeError", "No such resource", None,
                      TRUE, Dict(kwargs), provider)
         ELSE Outcome("", "", Dict("id" :> Str("obj_1")),
                      TRUE, Dict(kwargs), provider)

\* StripeAPI.run(method, **kwargs)
run(context, method, kwargs, answer) ==
    IF method \notin method_dispatch
    THEN Outcome("ValueError", "Invalid method: " \o method, None,
                 FALSE, None, NoProvider)
    ELSE LET r == CallImpl(method, context, kwargs, answer) IN
         IF r.raised # "" THEN r
         ELSE [r EXCEPT !.value = Text(json_dumps(r.value))]

\* The call api.run(method, **params): params must be a mapping, and none of
\* its keys may name run's own parameter `method`.
CallRun(context, method, params, answer) ==
    IF params.t # "dict"
    THEN Outcome("TypeError", "argument after ** must be a mapping", None,
                 FALSE, None, NoProvider)
    ELSE IF "method" \in DOMAIN params.d
    THEN Outcome("TypeError", "run() got multiple values for argument 'method'",
                 None, FALSE, None, NoProvider)
    ELSE run(context, method, params.d, answer)

\* StripeAPI.create_meter_event(event, customer, value): the meter event data.
meter_event_data(context, event, customer, value) ==
    LET payload == IF value # None
                   THEN Dict("stripe_customer_id" :> Str(customer) @@ "value" :> value)
                   ELSE Dict("stripe_customer_id" :> Str(customer))
        base == "event_name" :> Str(event) @@ "payload" :> payload IN
    IF Get(context, "account", None) # None
    THEN Dict(base @@ "stripe_account" :> Get(context, "account", None))
    ELSE Dict(base)

(***************************************************************************)
(* What a call did: the observation kept in `last`                         *)
(***************************************************************************)
NoCall == Outcome("", "", None, FALSE, None, NoProvider)

Obs(op, k, tool, input, dispatched, validate_raised, run_method, run_args, r, raised, ret) ==
    [op |-> op, toolkit |-> k, tool |-> tool, input |-> input,
     dispatched |-> dispatched, validate_raised |-> validate_raised,
     run_method |-> run_method, run_args |-> run_args,
     run_raised |-> r.raised, executed |-> r.executed,
     impl_args |-> r.impl_args, provider |-> r.provider,
     raised |-> raised, ret |-> ret]

(***************************************************************************)
(* strands adapter: StripeTool and its callback_wrapper                    *)
(***************************************************************************)
\* a or b
Or(a, b) == IF Truthy(a) THEN a ELSE b

\* Envelope unwrap: the toolUseId and the parameters, or the exception raised.
Unwrap(tool_input) ==
    IF tool_input.t = "dict" /\ HasKey(tool_input, "toolUseId")
    THEN [raised |-> "", tool_use_id |-> tool_input.d["toolUseId"],
          actual_params |-> Get(tool_input, "input", EmptyDict)]
    ELSE IF tool_input.t = "str"
    THEN LET parsed == json_loads(tool_input.toks) IN
         IF ~parsed.ok
         THEN [raised |-> "", tool_use_id |-> None, actual_params |-> EmptyDict]
         ELSE IF parsed.v.t # "dict"
         THEN [raised |-> "AttributeError", tool_use_id |-> None,
               actual_params |-> None]
         ELSE [raised |-> "", tool_use_id |-> Get(parsed.v, "toolUseId", None),
               actual_params |-> Get(parsed.v, "input", parsed.v)]
    ELSE IF tool_input.t = "dict"
    THEN [raised |-> "", tool_use_id |-> None, actual_params |-> tool_input]
    ELSE [raised |-> "", tool_use_id |-> None, actual_params |-> EmptyDict]

\* A handler that catches only the dispatcher's own ValueError.
ExceptValueError(exc) == exc = "ValueError"

\* `except Exception`: every exception of the model derives from Exception.
ExceptException(exc) ==
    exc \in {"ValueError", "TypeError", "AttributeError", "StripeError",
             "ValidationError"}

ResultWrap(result, tool_use_id) ==
    Dict("content" :> List(<<Dict("text" :> result)>>)
         @@ "status" :> Str("success")
         @@ "toolUseId" :> Or(tool_use_id, Str("unknown")))

FailureWrap(msg, tool_use_id) ==
    Dict("content" :> List(<<Dict("text" :> Str("Error: " \o msg))>>)
         @@ "status" :> Str("error")
         @@ "toolUseId" :> Or(tool_use_id, Str("unknown")))

callback_wrapper(k, context, method, tool_input, answer) ==
    LET u == Unwrap(tool_input) IN
    IF u.raised # ""
    THEN Obs("strands", k, method, tool_input, FALSE, "", "", None, NoCall,
             u.raised, None)
    ELSE LET r == CallRun(context, method, u.actual_params, answer) IN
         IF r.raised = ""
         THEN Obs("strands", k, method, tool_input, TRUE, "", method,
                  u.actual_params, r, "", ResultWrap(r.value, u.tool_use_id))
         ELSE IF ExceptException(r.raised)
         THEN Obs("strands", k, method, tool_input, TRUE, "", method,
                  u.actual_params, r, "", FailureWrap(r.msg, u.tool_use_id))
         ELSE Obs("strands", k, method, tool_input, TRUE, "", method,
                  u.actual_params, r, r.raised, None)

\* StripeTool(api, tool): the projected schema `parameters` of the tool.
parameters(tool) ==
    [type |-> "object",
     properties |-> Schemas[tool.method].properties,
     required |-> Schemas[tool.method].required,
     additionalProperties |-> FALSE]

\* The tool_spec handed to the framework.
tool_spec(tool) ==
    [name |-> tool.method,
     description |-> tool.description,
     inputSchema |-> [json |-> parameters(tool)]]

\* StripeTool(api, tool): the framework tool, whose tool_func is
\* callback_wrapper closed over api and tool.
StripeTool(k, tool) == [tool_name |-> tool.method, api |-> k]

(***************************************************************************)
(* camel adapter: StripeTool.__call__ and _run                             *)
(***************************************************************************)
TypeOf(v) == v.t

\* args_schema(**kwargs).dict(): a missing required field or a value of the
\* wrong type is a ValidationError, an undeclared field is dropped, an absent
\* optional field takes its default None.
Validate(method, kwargs) ==
    LET schema == Schemas[method] IN
    IF \/ ~(schema.required \subseteq DOMAIN kwargs)
       \/ \E f \in DOMAIN kwargs \cap DOMAIN schema.properties :
             TypeOf(kwargs[f]) # schema.properties[f]
    THEN [raised |-> "ValidationError", value |-> <<>>]
    ELSE [raised |-> "",
          value |-> [f \in DOMAIN schema.properties |->
                        IF f \in DOMAIN kwargs THEN kwargs[f] ELSE None]]

camel_call(k, context, method, with_schema, kwargs, answer) ==
    IF with_schema
    THEN LET validated_args == Validate(method, kwargs) IN
         IF validated_args.raised # ""
         THEN Obs("camel", k, method, Dict(kwargs), FALSE, validated_args.raised,
                  "", None, NoCall, validated_args.raised, None)
         ELSE LET r == CallRun(context, method, Dict(validated_args.value), answer) IN
              Obs("camel", k, method, Dict(kwargs), TRUE, "", method,
                  Dict(validated_args.value), r, r.raised, r.value)
    ELSE LET r == CallRun(context, method, Dict(kwargs), answer) IN
         Obs("camel", k, method, Dict(kwargs), TRUE, "", method, Dict(kwargs), r,
             r.raised, r.value)

(***************************************************************************)
(* strands toolkit: StripeAgentToolkit                                     *)
(***************************************************************************)
\* A toolkit that wraps the whole catalogue, whatever the configuration.
unfiltered_tools(configuration) == tools

\* filtered_tools: the catalogue entries is_tool_allowed admits, in order.
filtered_tools(configuration) ==
    SelectSeq(tools, LAMBDA tool : is_tool_allowed(tool, configuration))

\* StripeAgentToolkit.__init__ with StripeAPI.__init__
NewToolkit(k, secret_key, configuration) ==
    LET context == IF Truthy(configuration)
                   THEN Get(configuration, "context", None)
                   ELSE None
        filtered == filtered_tools(configuration) IN
    [secret_key |-> Str(secret_key),
     configuration |-> configuration,
     context |-> IF context # None THEN context ELSE EmptyDict,
     tools |-> [i \in 1..Len(filtered) |-> StripeTool(k, filtered[i])]]

Constructed(k) == toolkits[k] # None

(***************************************************************************)
(* Actions                                                                 *)
(***************************************************************************)
\* The provider answers or fails; a failure needs a provider call to happen in.
Answers == {"ok", "fail"}
Answered(answer, obs) == answer = "fail" => obs.provider.called

Init ==
    /\ stripe_api_key = None
    /\ toolkits = [k \in Toolkits |-> None]
    /\ last = Obs("none", 0, "", None, FALSE, "", "", None, NoCall, "", None)

\* StripeAgentToolkit(secret_key, configuration); instances are made in order.
Construct(k) ==
    /\ ~Constructed(k)
    /\ k > 1 => Constructed(k - 1)
    /\ \E configuration \in Configurations :
          /\ toolkits' = [toolkits EXCEPT
                            ![k] = NewToolkit(k, SecretKeys[k], configuration)]
          /\ stripe_api_key' = Str(SecretKeys[k])
    /\ UNCHANGED last

\* toolkit.get_tools()
GetTools(k) ==
    /\ Constructed(k)
    /\ last' = Obs("get_tools", k, "", None, FALSE, "", "", None, NoCall, "",
                   List(toolkits[k].tools))
    /\ UNCHANGED <<stripe_api_key, toolkits>>

\* The framework invokes tool i of toolkit k with a raw input.
StrandsInvoke(k) ==
    /\ Constructed(k)
    /\ \E i \in DOMAIN toolkits[k].tools, tool_input \in Inputs :
          \E answer \in Answers :
             LET tool == toolkits[k].tools[i]
                 obs == callback_wrapper(tool.api, toolkits[tool.api].context,
                                         tool.tool_name, tool_input, answer) IN
             Answered(answer, obs) /\ last' = obs
    /\ UNCHANGED <<stripe_api_key, toolkits>>

\* A camel StripeTool over the toolkit's StripeAPI, called with keyword arguments.
CamelCall(k) ==
    /\ Constructed(k)
    /\ \E tool \in {t \in {tools[i] : i \in DOMAIN tools} :
                       is_tool_allowed(t, toolkits[k].configuration)},
          with_schema \in BOOLEAN, kwargs \in KwargsSet :
          \E answer \in Answers :
             LET obs == camel_call(k, toolkits[k].context, tool.method,
                                   with_schema, kwargs, answer) IN
             Answered(answer, obs) /\ last' = obs
    /\ UNCHANGED <<stripe_api_key, toolkits>>

RunMethods == {"create_product", "update_customer"}

\* StripeAPI.run called directly on the toolkit's StripeAPI.
Run(k) ==
    /\ Constructed(k)
    /\ \E method \in RunMethods, kwargs \in KwargsSet :
          \E answer \in Answers :
             LET r == CallRun(toolkits[k].context, method, Dict(kwargs), answer)
                 obs == Obs("run", k, "", Dict(kwargs), TRUE, "", method,
                            Dict(kwargs), r, r.raised, r.value) IN
             Answered(answer, obs) /\ last' = obs
    /\ UNCHANGED <<stripe_api_key, toolkits>>

\* StripeAPI.create_meter_event(event, customer, value)
CreateMeterEvent(k) ==
    /\ Constructed(k)
    /\ \E value \in {None, Str("5")}, answer \in Answers :
          LET data == meter_event_data(toolkits[k].context, "api_call", "cus_1", value)
              provider == [called |-> TRUE, api |-> "billing.MeterEvent.create",
                           api_key |-> stripe_api_key,
                           stripe_account |-> Get(data, "stripe_account", None)]
              r == IF answer = "fail"
                   THEN Outcome("StripeError", "No such customer", None, FALSE,
                                None, provider)
                   ELSE Outcome("", "", None, FALSE, None, provider) IN
          last' = Obs("create_meter_event", k, "", data, FALSE, "", "", None,
                      [r EXCEPT !.raised = ""], r.raised, None)
    /\ UNCHANGED <<stripe_api_key, toolkits>>

Next ==
    \E k \in Toolkits :
        \/ Construct(k)
        \/ GetTools(k)
        \/ StrandsInvoke(k)
        \/ CamelCall(k)
        \/ Run(k)
        \/ CreateMeterEvent(k)

Spec == Init /\ [][Next]_vars

(***************************************************************************)
(* Properties                                                              *)
(***************************************************************************)
\* configuration.allowed[o.category][o.action] == true
Allowed(configuration, o) ==
    /\ configuration.t = "dict"
    /\ "actions" \in DOMAIN configuration.d
    /\ o.category \in DOMAIN configuration.d["actions"].d
    /\ o.action \in DOMAIN configuration.d["actions"].d[o.category].d
    /\ configuration.d["actions"].d[o.category].d[o.action] = Bool(TRUE)

Catalogue == {tools[i] : i \in DOMAIN tools}

\* The object a raw input stands for: the dict itself, or what a str decodes to.
Decoded(input) ==
    IF input.t = "str"
    THEN LET parsed == json_loads(input.toks) IN
         IF parsed.ok THEN parsed.v ELSE None
    ELSE input

IsEnvelope(ret) ==
    /\ ret.t = "dict"
    /\ DOMAIN ret.d = {"content", "status", "toolUseId"}
    /\ ret.d["content"].t = "list"
    /\ Len(ret.d["content"].l) = 1
    /\ ret.d["content"].l[1].t = "dict"
    /\ DOMAIN ret.d["content"].l[1].d = {"text"}
    /\ ret.d["content"].l[1].d["text"].t = "str"

\* C1: in the strands adapter, whenever the dispatch stage is reached and the
\* call of api.run raises (unknown operation, argument failure, provider
\* failure), callback_wrapper returns an envelope with status "error", a text
\* describing the failure and a toolUseId, and nothing escapes; a tool whose
\* operation is not registered always yields such an envelope.
C1_FailureIsWrapped ==
    (last.op = "strands" /\ last.dispatched) =>
        /\ last.run_raised # "" =>
              /\ last.raised = ""
              /\ IsEnvelope(last.ret)
              /\ last.ret.d["status"] = Str("error")
              /\ "s" \in DOMAIN last.ret.d["content"].l[1].d["text"]
              /\ last.run_raised = "ValueError" =>
                    last.ret.d["content"].l[1].d["text"]
                        = Str("Error: Invalid method: " \o last.tool)
        /\ last.tool \notin method_dispatch =>
              /\ last.raised = ""
              /\ IsEnvelope(last.ret)
              /\ last.ret.d["status"] = Str("error")
              /\ ~last.executed

C1_Witness ==
    /\ last.op = "strands"
    /\ last.tool = "update_customer"
    /\ last.run_raised = "ValueError"
    /\ last.raised = ""
    /\ last.ret.d["status"] = Str("error")

\* C2: the implementation of an operation is executed only if the operation is
\* allowed by the configuration the toolkit was constructed with.
C2_OnlyAllowedExecuted ==
    last.executed =>
        \E o \in Catalogue :
            /\ o.method = last.run_method
            /\ Allowed(toolkits[last.toolkit].configuration, o)

\* C3: a constructed toolkit holds, and get_tools() returns, exactly one tool
\* for each catalogue entry the configuration allows and none for any other
\* entry (none at all for a missing or empty configuration), in every state
\* reached by later get_tools() and tool invocations.
ExactlyAllowed(seq, configuration) ==
    /\ \A o \in Catalogue :
          Cardinality({j \in DOMAIN seq : seq[j].tool_name = o.method})
              = IF Allowed(configuration, o) THEN 1 ELSE 0
    /\ \A j \in DOMAIN seq : \E o \in Catalogue : seq[j].tool_name = o.method
    /\ ~Truthy(configuration) => seq = <<>>

C3_ToolsAreTheAllowed ==
    /\ \A k \in Toolkits :
          Constructed(k) => ExactlyAllowed(toolkits[k].tools, toolkits[k].configuration)
    /\ last.op = "get_tools" =>
          /\ last.raised = ""
          /\ ExactlyAllowed(last.ret.l, toolkits[last.toolkit].configuration)

C3_Witness ==
    /\ last.op = "get_tools"
    /\ toolkits[last.toolkit].configuration
          = Dict("actions" :> Dict("products" :> Dict("create" :> Bool(TRUE))))
    /\ Len(last.ret.l) = 1
    /\ last.ret.l[1].tool_name = "create_product"

\* C4: a raw input that cannot be turned into an argument mapping (a str that
\* is not JSON, a str that decodes to something other than an object, a value
\* that is neither dict nor str) is dispatched with an empty argument mapping
\* and answered with an envelope; no exception propagates.
Unmappable(input) ==
    \/ input.t \notin {"dict", "str"}
    \/ input.t = "str" /\ Decoded(input).t # "dict"

C4_UnmappableIsEmpty ==
    (last.op = "strands" /\ Unmappable(last.input)) =>
        /\ last.raised = ""
        /\ last.dispatched
        /\ last.run_args = EmptyDict
        /\ IsEnvelope(last.ret)

\* C5: every envelope callback_wrapper returns has a toolUseId: the value the
\* input envelope (dict or JSON-encoded str) carries, or "unknown" when it
\* carries none.
CarriesId(input) == Decoded(input).t = "dict" /\ HasKey(Decoded(input), "toolUseId")

C5_ToolUseIdEchoed ==
    (last.op = "strands" /\ last.raised = "") =>
        /\ IsEnvelope(last.ret)
        /\ last.ret.d["toolUseId"]
              = IF CarriesId(last.input)
                THEN Decoded(last.input).d["toolUseId"]
                ELSE Str("unknown")

\* C6: in every adapter, when argument validation or the dispatcher's run
\* fails, the tool call returns a result and no exception propagates.
C6_NoAdapterRaises ==
    (/\ last.op \in {"strands", "camel"}
     /\ last.validate_raised # "" \/ last.run_raised # "") =>
        /\ last.raised = ""
        /\ last.ret # None

\* C7: an argument mapping with a missing required field or an undeclared
\* field never reaches the implementation, on any path; every mapping the
\* implementation is executed with is one the schema declaration admits.
\* The projected schema of the tool for `method` admits the mapping.
Admits(method, kwargs) ==
    LET schema == parameters(CHOOSE o \in Catalogue : o.method = method) IN
    /\ schema.required \subseteq DOMAIN kwargs
    /\ ~schema.additionalProperties => DOMAIN kwargs \subseteq DOMAIN schema.properties
    /\ \A f \in DOMAIN kwargs \cap DOMAIN schema.properties :
          \/ kwargs[f].t = schema.properties[f]
          \/ kwargs[f] = None /\ f \notin schema.required

\* The argument mapping a call was given, when it is a mapping.
Supplied == IF last.op = "strands" THEN last.run_args ELSE last.input

C7_ValidatedBeforeInvocation ==
    last.executed =>
        /\ Admits(last.run_method, last.impl_args.d)
        /\ Supplied.t = "dict"
        /\ Schemas[last.run_method].required \subseteq DOMAIN Supplied.d
        /\ DOMAIN Supplied.d \subseteq DOMAIN Schemas[last.run_method].properties

\* C8: a failure of the provider call made by create_meter_event is not
\* surfaced to the caller.
C8_MeterFailureSwallowed ==
    last.op = "create_meter_event" => last.raised = ""

\* C9: the provider call of every tool invocation is made with the credential
\* and the account of the toolkit the tool belongs to, whatever other toolkits
\* were constructed or invoked before.
C9_OwnCredential ==
    (last.op \in {"strands", "camel"} /\ last.provider.called) =>
        /\ last.provider.api_key = toolkits[last.toolkit].secret_key
        /\ last.provider.stripe_account
              = Get(toolkits[last.toolkit].context, "account", None)

\* C10: callback_wrapper dispatches with the tool's own operation name and the
\* flat argument mapping of the envelope: the sub-object under 'input' of a
\* dict envelope, the map itself for a bare argument map, and for a
\* JSON-encoded str the same mapping as for the decoded object.
Flat(envelope) ==
    IF HasKey(envelope, "input") THEN envelope.d["input"]
    ELSE IF HasKey(envelope, "toolUseId") THEN EmptyDict
    ELSE envelope

C10_FlatMapping ==
    (last.op = "strands" /\ last.dispatched) =>
        /\ last.run_method = last.tool
        /\ Decoded(last.input).t = "dict" =>
              /\ last.run_args = Flat(Decoded(last.input))
              /\ last.run_args = Unwrap(Decoded(last.input)).actual_params

====
